---- MODULE Spec2Model ----
(***************************************************************************)
(* Model of the recipe tooling of ai-recipe-generation:                    *)
(*   bulk_mealie_import.py     fetch_listing, import_recipes,              *)
(*                             delete_all_tagged                           *)
(*   bulk_parse_recipe_pages.py / parse_recipe_page.py                     *)
(*                             bulk_process_folder, process_recipe_image   *)
(* Python strings are sequences of character codes, so that lower(),       *)
(* strip(), endswith(), re.sub and sorted() are computed, not assumed.     *)
(***************************************************************************)
EXTENDS Integers, Sequences, FiniteSets, TLC

VARIABLES
    pc,           \* position of the running function
    index_url,    \* argument of fetch_listing / import_recipes
    index_html,   \* start tags of the index document, in document order
    feed_i,       \* IndexParser.feed: next start tag to handle
    links,        \* IndexParser.links
    recipe_urls,  \* import_recipes: what fetch_listing returned
    tag,          \* --tag / --delete-tagged argument (None when absent)
    idx,          \* import_recipes: position of the loop over recipe_urls
    html,         \* import_recipes: the page read for the current url
    name,         \* import_recipes: extract_name(html) of the current url
    tags,         \* import_recipes: stripped, lower-cased extract_tags(html)
    items,        \* the "items" of the last api_get response
    item_i,       \* position of the loop over items / victims
    calls,        \* requests issued to the recipe manager, in order: by
                  \* import_recipes for the current url, by delete_all_tagged
                  \* in the run
    log,          \* lines printed (their kind), in order, over the same span
    created,      \* import_recipes: the loop positions curl_import ran for
    catalog,      \* the recipe manager's entries (delete_all_tagged)
    page,         \* delete_all_tagged: page number
    victims,      \* delete_all_tagged: marked entries
    png_files,    \* bulk_process_folder: sorted page images
    png_i,        \* bulk_process_folder: position of the loop over png_files
    scripts,      \* process_recipe_image: blocks of the current page
    script_i,     \* process_recipe_image: position of the loop over scripts
    files         \* artifacts written to out_dir, in order

vars == <<pc, index_url, index_html, feed_i, links, recipe_urls, tag, idx,
          html, name, tags, items, item_i, calls, log, created, catalog, page,
          victims,
          png_files, png_i, scripts, script_i, files>>

listingVars == <<index_url, index_html, feed_i, links, recipe_urls>>
importVars  == <<idx, html, name, tags, created>>
purgeVars   == <<catalog, page, victims>>
bulkVars    == <<png_files, png_i, scripts, script_i, files>>

\* Python's None, where a str is expected (no character has code -1).
None == <<-1>>

\* html before the first page is read
NoPage == [kind |-> "none"]


(***************************************************************************)
(* Python str                                                              *)
(***************************************************************************)
\* Printable ASCII, code 32 first (code 96 is spelled out).
Ascii ==
    <<" ", "!", "\"", "#", "$", "%", "&", "'", "(", ")", "*", "+", ",", "-",
      ".", "/", "0", "1", "2", "3", "4", "5", "6", "7", "8", "9", ":", ";",
      "<", "=", ">", "?", "@", "A", "B", "C", "D", "E", "F", "G", "H", "I",
      "J", "K", "L", "M", "N", "O", "P", "Q", "R", "S", "T", "U", "V", "W",
      "X", "Y", "Z", "[", "\\", "]", "^", "_", "grave", "a", "b", "c", "d", "e",
      "f", "g", "h", "i", "j", "k", "l", "m", "n", "o", "p", "q", "r", "s",
      "t", "u", "v", "w", "x", "y", "z", "{", "|", "}", "~">>

Ord(c) == 31 + (CHOOSE i \in 1..Len(Ascii) : Ascii[i] = c)

\* A str literal, written as its characters.
Str(cs) == [i \in 1..Len(cs) |-> Ord(cs[i])]

ord_A == Ord("A")
ord_Z == Ord("Z")
ord_a == Ord("a")
ord_z == Ord("z")
ord_0 == Ord("0")
ord_9 == Ord("9")
ord_space == Ord(" ")

IsUpper(c) == c >= ord_A /\ c <= ord_Z
IsLower(c) == c >= ord_a /\ c <= ord_z
IsDigit(c) == c >= ord_0 /\ c <= ord_9

\* str.lower()
Lower(s) == [i \in 1..Len(s) |-> IF IsUpper(s[i]) THEN s[i] + (ord_a - ord_A) ELSE s[i]]

RECURSIVE LStrip(_)
LStrip(s) == IF s # <<>> /\ Head(s) = ord_space THEN LStrip(Tail(s)) ELSE s

RECURSIVE RStrip(_)
RStrip(s) ==
    IF s # <<>> /\ s[Len(s)] = ord_space THEN RStrip(SubSeq(s, 1, Len(s) - 1)) ELSE s

\* str.strip()
Strip(s) == RStrip(LStrip(s))

\* str.endswith(suffix)
EndsWith(s, suffix) ==
    /\ Len(s) >= Len(suffix)
    /\ SubSeq(s, Len(s) - Len(suffix) + 1, Len(s)) = suffix

\* str.startswith(prefix)
StartsWith(s, prefix) ==
    /\ Len(s) >= Len(prefix)
    /\ SubSeq(s, 1, Len(prefix)) = prefix

\* a < b on str: code-point lexicographic order
StrLess(a, b) ==
    \E k \in 1..(Len(b)) :
        /\ \A j \in 1..(k - 1) : j <= Len(a) /\ a[j] = b[j]
        /\ \/ k = Len(a) + 1
           \/ k <= Len(a) /\ a[k] < b[k]

StrLeq(a, b) == a = b \/ StrLess(a, b)

\* x in xs, for a list
InList(x, xs) == \E i \in 1..Len(xs) : xs[i] = x

\* list comprehension [f(x) for x in xs]
MapSeq(f(_), xs) == [i \in 1..Len(xs) |-> f(xs[i])]

\* sorted(xs) for a list of str: stable insertion into an ordered list
RECURSIVE Insert(_, _)
Insert(x, xs) ==
    IF xs = <<>> THEN <<x>>
    ELSE IF StrLess(x, Head(xs)) THEN <<x>> \o xs
    ELSE <<Head(xs)>> \o Insert(x, Tail(xs))

RECURSIVE sorted(_)
sorted(xs) == IF xs = <<>> THEN <<>> ELSE Insert(xs[Len(xs)], sorted(SubSeq(xs, 1, Len(xs) - 1)))

(***************************************************************************)
(* bulk_mealie_import.py: IndexParser, fetch_listing                       *)
(***************************************************************************)
MaxTags == 3

dot_html == Str(<<".", "h", "t", "m", "l">>)
slash    == Str(<<"/">>)

\* str.rstrip("/")
RECURSIVE RStripSlash(_)
RStripSlash(s) ==
    IF s # <<>> /\ s[Len(s)] = slash[1] THEN RStripSlash(SubSeq(s, 1, Len(s) - 1)) ELSE s

\* Position of the first occurrence of sub in s at or after from; 0 when absent.
RECURSIVE Find(_, _, _)
Find(s, sub, from) ==
    IF from + Len(sub) - 1 > Len(s) THEN 0
    ELSE IF SubSeq(s, from, from + Len(sub) - 1) = sub THEN from
    ELSE Find(s, sub, from + 1)

scheme_sep == Str(<<":", "/", "/">>)

\* scheme://netloc of an absolute URL
Origin(url) ==
    LET a == Find(url, scheme_sep, 1)
        b == Find(url, slash, a + Len(scheme_sep))
    IN  IF b = 0 THEN url ELSE SubSeq(url, 1, b - 1)

\* urllib.parse.urljoin(base, link), for a base that ends in "/" and the
\* three shapes of link an index page carries: an absolute URL, an
\* absolute path, a file name relative to the directory.
urljoin(base, link) ==
    IF Find(link, scheme_sep, 1) # 0 THEN link
    ELSE IF StartsWith(link, slash) THEN Origin(base) \o link
    ELSE base \o link

\* line 53 without .lower()
KeepsLinkCaseSensitive(t) ==
    /\ t.tag = "a"
    /\ EndsWith(IF t.href = None THEN <<>> ELSE t.href, dot_html)

\* IndexParser.handle_starttag, lines 51-53: tag == "a" and
\* href.lower().endswith(".html"), href defaulting to ""
KeepsLink(t) ==
    /\ t.tag = "a"
    /\ EndsWith(Lower(IF t.href = None THEN <<>> ELSE t.href), dot_html)

\* fetch_listing, after p.feed(html): base and the sorted joined links
fetch_listing(url, ls) ==
    LET base == RStripSlash(url) \o slash
        join(l) == urljoin(base, l)
    IN  sorted(MapSeq(join, ls))

\* The start tags an index document is made of.
Hrefs ==
    { Str(<<"a", ".", "h", "t", "m", "l">>),
      Str(<<"B", ".", "H", "T", "M", "L">>),
      Str(<<"c", ".", "t", "x", "t">>),
      Str(<<"/", "x", ".", "h", "t", "m", "l">>),
      Str(<<"h", "t", "t", "p", ":", "/", "/", "o", "/", "z", ".", "h", "t", "m", "l">>),
      None }

StartTags ==
    [tag : {"a"}, href : Hrefs]
      \cup [tag : {"link"}, href : {Str(<<"s", ".", "h", "t", "m", "l">>)}]

IndexUrls ==
    { Str(<<"h", "t", "t", "p", ":", "/", "/", "h", "/", "r">>),
      Str(<<"h", "t", "t", "p", ":", "/", "/", "h", "/", "r", "/">>) }

SeqsUpTo(S, n) == UNION { [1..k -> S] : k \in 0..n }

\* p.feed(html): one start tag
HandleStartTag ==
    /\ pc = "fetch_listing"
    /\ feed_i <= Len(index_html)
    /\ links' = IF KeepsLink(index_html[feed_i])
                THEN Append(links, index_html[feed_i].href)
                ELSE links
    /\ feed_i' = feed_i + 1
    /\ UNCHANGED <<pc, index_url, index_html, recipe_urls, tag, importVars,
                   items, item_i, calls, log, purgeVars, bulkVars>>

\* fetch_listing returns; import_recipes exits when nothing is listed
FetchListingReturn ==
    /\ pc = "fetch_listing"
    /\ feed_i > Len(index_html)
    /\ recipe_urls' = fetch_listing(index_url, links)
    /\ IF recipe_urls' = <<>>
       THEN pc' = "exit" /\ log' = Append(log, [k |-> 0, kind |-> "no_html_files"])
       ELSE pc' = "for_url" /\ log' = log
    /\ UNCHANGED <<index_url, index_html, feed_i, links, tag, importVars,
                   items, item_i, calls, purgeVars, bulkVars>>

\* urlopen(index_url) raises: import_recipes exits
FetchListingFails ==
    /\ pc = "fetch_listing"
    /\ feed_i = 1
    /\ pc' = "exit"
    /\ log' = Append(log, [k |-> 0, kind |-> "unable_to_fetch_index"])
    /\ UNCHANGED <<listingVars, tag, importVars, items, item_i, calls,
                   purgeVars, bulkVars>>

IdleRest ==
    /\ tag = None /\ idx = 1 /\ name = None /\ tags = <<>> /\ html = NoPage
    /\ items = <<>> /\ item_i = 1 /\ calls = <<>> /\ log = <<>> /\ created = <<>>
    /\ catalog = <<>> /\ page = 1 /\ victims = <<>>
    /\ png_files = <<>> /\ png_i = 1 /\ scripts = <<>> /\ script_i = 1
    /\ files = <<>>

InitListing ==
    /\ pc = "fetch_listing"
    /\ index_url \in IndexUrls
    /\ index_html \in SeqsUpTo(StartTags, MaxTags)
    /\ feed_i = 1 /\ links = <<>> /\ recipe_urls = <<>>
    /\ IdleRest

NextListing == HandleStartTag \/ FetchListingReturn \/ FetchListingFails

SpecListing == InitListing /\ [][NextListing]_vars

(***************************************************************************)
(* bulk_mealie_import.py: extract_name, extract_tags                       *)
(***************************************************************************)
\* A fetched page: kind "unreachable" (urlopen raises), "no_ld" (no JSON-LD
\* script), "bad_json" (json.loads raises), "ld" (a JSON object with an
\* optional "name" and optional "keywords", a str or a list of str).
NoKeywords      == [kind |-> "none", str |-> <<>>, list |-> <<>>]
StrKeywords(s)  == [kind |-> "str",  str |-> s,    list |-> <<>>]
ListKeywords(l) == [kind |-> "list", str |-> <<>>, list |-> l]

extract_name(html_text) == IF html_text.kind = "ld" THEN html_text.name ELSE None

\* re.split(r'[;,]', s)
RECURSIVE SplitFrom(_, _)
SplitFrom(s, cur) ==
    IF s = <<>> THEN <<cur>>
    ELSE IF Head(s) = Ord(";") \/ Head(s) = Ord(",")
         THEN <<cur>> \o SplitFrom(Tail(s), <<>>)
         ELSE SplitFrom(Tail(s), Append(cur, Head(s)))

re_split(s) == SplitFrom(s, <<>>)

extract_tags(html_text) ==
    IF html_text.kind # "ld" THEN <<>>
    ELSE IF html_text.keywords.kind = "str"
         THEN MapSeq(Strip, re_split(html_text.keywords.str))
    ELSE IF html_text.keywords.kind = "list" THEN html_text.keywords.list
    ELSE <<>>

StripLower(t) == Lower(Strip(t))

s_Chili       == Str(<<"C", "h", "i", "l", "i">>)
s_chili       == Str(<<"c", "h", "i", "l", "i">>)
s_White_Chili == Str(<<"W", "h", "i", "t", "e", " ", "C", "h", "i", "l", "i">>)
s_Family      == Str(<<"F", "a", "m", "i", "l", "y">>)
s_family      == Str(<<"f", "a", "m", "i", "l", "y">>)
s_Other       == Str(<<"O", "t", "h", "e", "r">>)
s_kw_str      == Str(<<"S", "o", "u", "p", ",", " ", "F", "A", "M", "I", "L", "Y", " ", ";", "x">>)
s_kw_near     == Str(<<"F", "a", "m", "i", "l", "y", "-", "s", "t", "y", "l", "e">>)
s_kw_padded   == Str(<<" ", "F", "a", "m", "i", "l", "y">>)

Pages ==
    { [kind |-> "unreachable", name |-> None, keywords |-> NoKeywords],
      [kind |-> "no_ld",       name |-> None, keywords |-> NoKeywords],
      [kind |-> "bad_json",    name |-> None, keywords |-> NoKeywords],
      [kind |-> "ld", name |-> None,    keywords |-> ListKeywords(<<s_Family>>)],
      [kind |-> "ld", name |-> <<>>,    keywords |-> ListKeywords(<<s_Family>>)],
      [kind |-> "ld", name |-> s_Chili, keywords |-> NoKeywords],
      [kind |-> "ld", name |-> s_Chili, keywords |-> StrKeywords(s_kw_str)],
      [kind |-> "ld", name |-> s_chili, keywords |-> ListKeywords(<<s_kw_near, s_Other>>)],
      [kind |-> "ld", name |-> s_Chili, keywords |-> ListKeywords(<<s_kw_padded>>)] }

(***************************************************************************)
(* bulk_mealie_import.py: import_recipes                                   *)
(***************************************************************************)
MaxItems == 2

\* A request to the recipe manager: op "search", "list", "delete" or
\* "create"; k the iteration of the caller's outer loop (the page number for
\* "list"); id the entry deleted; ok whether it returned (FALSE: it raised,
\* or, for create, curl reported a failure status); q the name searched;
\* res the items returned.
Call(op, k, id, ok, q, res) ==
    [op |-> op, k |-> k, id |-> id, ok |-> ok, q |-> q, res |-> res]

Line(k, kind) == [k |-> k, kind |-> kind]

\* Entries a search can return: item.get("name", "") is "" when name is None.
SearchEntries ==
    { [id |-> 1, name |-> s_Chili],
      [id |-> 2, name |-> Str(<<"C", "H", "I", "L", "I">>)],
      [id |-> 3, name |-> s_White_Chili],
      [id |-> 4, name |-> None] }

Injective(f) == \A i, j \in DOMAIN f : f[i] = f[j] => i = j

SearchResults == { r \in SeqsUpTo(SearchEntries, MaxItems) : Injective(r) }

item_name(item) == IF item.name = None THEN <<>> ELSE item.name

\* line 186, as "name is None"
NotNameNoneOnly(n) == n = None

\* line 186: not name
NotName(n) == n = None \/ n = <<>>

\* line 191, with a substring test in place of list membership
TagAbsentSubstring(tg, tgs) ==
    /\ tg # None /\ tg # <<>>
    /\ ~ \E i \in 1..Len(tgs) : Find(tgs[i], StripLower(tg), 1) # 0

\* line 191: tag and tag.strip().lower() not in tags
TagAbsent(tg, tgs) ==
    /\ tg # None /\ tg # <<>>
    /\ ~ InList(StripLower(tg), tgs)

\* line 199, with a substring test in place of equality
IsDuplicateSubstring(item, n) == Find(Lower(item_name(item)), Lower(n), 1) # 0

\* line 199: item.get("name", "").lower() == name.lower()
IsDuplicate(item, n) == Lower(item_name(item)) = Lower(n)

\* the loop over recipe_urls moves on
NextUrl(k) == IF k + 1 > Len(recipe_urls) THEN "done" ELSE "for_url"

\* lines 177-193: read the page, extract, filter (calls and log start over
\* for this url)
ReadPage ==
    /\ pc = "for_url"
    /\ \E page_read \in Pages :
        /\ html' = page_read
        /\ IF page_read.kind = "unreachable"
           THEN /\ log' = <<Line(idx, "cannot_read")>>
                /\ idx' = idx + 1 /\ pc' = NextUrl(idx)
                /\ UNCHANGED <<name, tags>>
           ELSE /\ name' = extract_name(page_read)
                /\ tags' = MapSeq(StripLower, extract_tags(page_read))
                /\ IF NotName(name')
                   THEN /\ log' = <<Line(idx, "no_name")>>
                        /\ idx' = idx + 1 /\ pc' = NextUrl(idx)
                   ELSE IF TagAbsent(tag, tags')
                   THEN /\ log' = <<Line(idx, "skip_tag")>>
                        /\ idx' = idx + 1 /\ pc' = NextUrl(idx)
                   ELSE /\ log' = <<>> /\ idx' = idx /\ pc' = "search"
    /\ calls' = <<>>
    /\ UNCHANGED <<listingVars, tag, items, item_i, created, purgeVars, bulkVars>>

\* the loop over data["items"] moves on
NextItem(its, i) == IF i + 1 > Len(its) THEN "create" ELSE "dup_loop"

\* line 197: api_get(search); an exception goes to line 204
Search ==
    /\ pc = "search"
    /\ \/ /\ calls' = Append(calls, Call("search", idx, 0, FALSE, name, <<>>))
          /\ log' = Append(log, Line(idx, "delete_error"))
          /\ items' = <<>> /\ item_i' = 1
          /\ pc' = "create"
       \/ \E res \in SearchResults :
          /\ calls' = Append(calls, Call("search", idx, 0, TRUE, name, res))
          /\ items' = res /\ item_i' = 1
          /\ log' = log
          /\ pc' = NextItem(res, 0)
    /\ UNCHANGED <<listingVars, tag, importVars, purgeVars, bulkVars>>

\* lines 198-204: one item of the search; an api_delete that raises leaves
\* the loop for the handler of line 203
DeleteDuplicate ==
    /\ pc = "dup_loop"
    /\ LET item == items[item_i] IN
       IF IsDuplicate(item, name)
       THEN \/ /\ calls' = Append(calls, Call("delete", idx, item.id, TRUE, <<>>, <<>>))
               /\ log' = Append(log, Line(idx, "deleted_duplicate"))
               /\ item_i' = item_i + 1
               /\ pc' = NextItem(items, item_i)
            \/ /\ calls' = Append(calls, Call("delete", idx, item.id, FALSE, <<>>, <<>>))
               /\ log' = Append(log, Line(idx, "delete_error"))
               /\ item_i' = item_i
               /\ pc' = "create"
       ELSE /\ item_i' = item_i + 1
            /\ pc' = NextItem(items, item_i)
            /\ UNCHANGED <<calls, log>>
    /\ UNCHANGED <<listingVars, tag, importVars, items, purgeVars, bulkVars>>

\* lines 207-208: curl_import, whatever status curl reports
Create ==
    /\ pc = "create"
    /\ \E ok \in BOOLEAN :
        calls' = Append(calls, Call("create", idx, 0, ok, <<>>, <<>>))
    /\ log' = Append(log, Line(idx, "imported"))
    /\ created' = Append(created, idx)
    /\ idx' = idx + 1
    /\ pc' = NextUrl(idx)
    /\ UNCHANGED <<listingVars, tag, name, tags, html, items, item_i,
                   purgeVars, bulkVars>>

s_a_html == Str(<<"a", ".", "h", "t", "m", "l">>)
s_b_html == Str(<<"B", ".", "H", "T", "M", "L">>)
s_c_txt  == Str(<<"c", ".", "t", "x", "t">>)

MaxUrls == 2

ImportTags == <<[tag |-> "a", href |-> s_a_html],
                [tag |-> "a", href |-> s_b_html],
                [tag |-> "a", href |-> s_c_txt]>>

InitImport ==
    /\ pc = "fetch_listing"
    /\ index_url \in IndexUrls
    /\ index_html \in SeqsUpTo({ImportTags[i] : i \in 1..Len(ImportTags)}, MaxUrls)
    /\ feed_i = 1 /\ links = <<>> /\ recipe_urls = <<>>
    /\ tag \in {None, s_Family}
    /\ idx = 1 /\ name = None /\ tags = <<>> /\ html = NoPage
    /\ items = <<>> /\ item_i = 1 /\ calls = <<>> /\ log = <<>> /\ created = <<>>
    /\ catalog = <<>> /\ page = 1 /\ victims = <<>>
    /\ png_files = <<>> /\ png_i = 1 /\ scripts = <<>> /\ script_i = 1
    /\ files = <<>>

NextImport ==
    \/ HandleStartTag \/ FetchListingReturn \/ FetchListingFails
    \/ ReadPage \/ Search \/ DeleteDuplicate \/ Create

SpecImport == InitImport /\ [][NextImport]_vars

(***************************************************************************)
(* bulk_mealie_import.py: _canon, delete_all_tagged                        *)
(***************************************************************************)
page_size == 100

MaxCatalog == 3

IsCanonChar(c) == IsLower(c) \/ IsDigit(c)

\* re.sub(r"[^a-z0-9]", "", text.lower())
_canon(text) == SelectSeq(Lower(text), IsCanonChar)

\* t.get("name", "") / t.get("slug", ""): None stands for a missing key
tag_name(t) == IF t.name = None THEN <<>> ELSE t.name
tag_slug(t) == IF t.slug = None THEN <<>> ELSE t.slug

\* lines 139-142: any(_canon(t) == wanted for t in tag_texts)
IsVictim(item, wanted) ==
    \E i \in 1..Len(item.tags) :
        \/ _canon(tag_name(item.tags[i])) = wanted
        \/ _canon(tag_slug(item.tags[i])) = wanted

\* lines 153-154: the first tag of the item that matches
MatchedTag(item, wanted) ==
    LET i == CHOOSE i \in 1..Len(item.tags) :
                /\ \/ _canon(tag_name(item.tags[i])) = wanted
                   \/ _canon(tag_slug(item.tags[i])) = wanted
                /\ \A j \in 1..(i - 1) :
                       /\ _canon(tag_name(item.tags[j])) # wanted
                       /\ _canon(tag_slug(item.tags[j])) # wanted
    IN  item.tags[i]

\* line 145, with <= in place of <
ShortPageOffByOne(its) == Len(its) <= page_size

\* line 145: len(items) < page_size
ShortPage(its) == Len(its) < page_size

Min(a, b) == IF a <= b THEN a ELSE b

\* The recipe manager's answer to GET ?page=p&perPage=n
ListPage(cat, p, n) == SubSeq(cat, (p - 1) * n + 1, Min(p * n, Len(cat)))

\* The recipe manager's catalog after DELETE of rid
Without(cat, rid) == SelectSeq(cat, LAMBDA e : e.id # rid)

TagOnly(n)    == [name |-> n,    slug |-> None]
SlugOnly(sl)  == [name |-> None, slug |-> sl]
TagOf(n, sl)  == [name |-> n,    slug |-> sl]

s_fam_punct == Str(<<"F", "a", "m", "-", "i", "l", "y", "!">>)
s_my_family == Str(<<"M", "y", " ", "F", "a", "m", "i", "l", "y">>)

TagLists ==
    { <<>>,
      <<TagOnly(s_Family)>>,
      <<SlugOnly(s_family)>>,
      <<TagOnly(s_Other)>>,
      <<TagOf(s_my_family, s_Other), TagOf(s_fam_punct, s_Other)>> }

\* Catalogs small enough to enumerate by their tags.
SmallCatalogs ==
    { [i \in 1..Len(f) |-> [id |-> i, tags |-> f[i]]] :
        f \in SeqsUpTo(TagLists, MaxCatalog) }

\* Catalogs of one or more pages: the entries next to a page boundary carry
\* the tag, the others do not.
BigSizes ==
    { page_size - 1, page_size, page_size + 1, 2 * page_size,
      2 * page_size + page_size \div 2 }

BigCatalog(n) ==
    [i \in 1..n |->
        [id |-> i,
         tags |-> IF i % page_size \in {0, 1}
                  THEN <<TagOf(s_Family, s_family)>>
                  ELSE <<TagOnly(s_Other)>>]]

Catalogs == SmallCatalogs \cup { BigCatalog(n) : n \in BigSizes }

PurgeTags == { s_Family, s_fam_punct }

\* lines 128-147, with the deletions of lines 150-156 done page by page
ScanPageAndDelete ==
    /\ pc = "scan"
    /\ LET got == ListPage(catalog, page, page_size)
           hit == SelectSeq(got, LAMBDA e : IsVictim(e, _canon(tag)))
           dels == [i \in 1..Len(hit) |-> Call("delete", page, hit[i].id, TRUE, <<>>, <<>>)]
       IN  /\ calls' = Append(calls, Call("list", page, 0, TRUE, <<>>, got)) \o dels
           /\ items' = got
           /\ victims' = victims \o hit
           /\ catalog' = SelectSeq(catalog, LAMBDA e : ~ InList(e, hit))
           /\ IF got = <<>> \/ ShortPage(got)
              THEN pc' = "delete" /\ page' = page /\ item_i' = Len(victims') + 1
              ELSE pc' = "scan" /\ page' = page + 1 /\ item_i' = item_i
    /\ UNCHANGED <<listingVars, tag, importVars, log, bulkVars>>

\* lines 128-147: one turn of the while loop
ScanPage ==
    /\ pc = "scan"
    /\ LET got == ListPage(catalog, page, page_size)
       IN  /\ calls' = Append(calls, Call("list", page, 0, TRUE, <<>>, got))
           /\ items' = got
           /\ victims' = victims \o SelectSeq(got, LAMBDA e : IsVictim(e, _canon(tag)))
           /\ IF got = <<>> \/ ShortPage(got)
              THEN pc' = "delete" /\ page' = page
              ELSE pc' = "scan" /\ page' = page + 1
    /\ item_i' = 1
    /\ UNCHANGED <<listingVars, tag, importVars, log, catalog, bulkVars>>

\* line 131: api_get raises, nothing catches it
ScanPageFails ==
    /\ pc = "scan"
    /\ calls' = Append(calls, Call("list", page, 0, FALSE, <<>>, <<>>))
    /\ pc' = "crashed"
    /\ UNCHANGED <<listingVars, tag, importVars, items, item_i, log,
                   purgeVars, bulkVars>>

\* lines 150-156: one victim. Nothing catches an api_delete that raises,
\* nor the KeyError of match['name'] in the print of line 156.
DeleteVictim ==
    /\ pc = "delete"
    /\ item_i <= Len(victims)
    /\ LET item  == victims[item_i]
           match == MatchedTag(item, _canon(tag))
       IN  \/ /\ calls' = Append(calls, Call("delete", 0, item.id, TRUE, <<>>, <<>>))
              /\ catalog' = Without(catalog, item.id)
              /\ IF match.name = None
                 THEN pc' = "crashed" /\ log' = log /\ item_i' = item_i
                 ELSE /\ pc' = "delete"
                      /\ log' = Append(log, Line(item.id, "deleted"))
                      /\ item_i' = item_i + 1
           \/ /\ calls' = Append(calls, Call("delete", 0, item.id, FALSE, <<>>, <<>>))
              /\ pc' = "crashed"
              /\ UNCHANGED <<catalog, log, item_i>>
    /\ UNCHANGED <<listingVars, tag, importVars, items, page, victims, bulkVars>>

\* line 158: the count
ReportCount ==
    /\ pc = "delete"
    /\ item_i > Len(victims)
    /\ log' = Append(log, Line(Len(victims), "deleted_count"))
    /\ pc' = "done"
    /\ UNCHANGED <<listingVars, tag, importVars, items, item_i, calls,
                   purgeVars, bulkVars>>

InitPurge ==
    /\ pc = "scan"
    /\ index_url = <<>> /\ index_html = <<>> /\ feed_i = 1 /\ links = <<>>
    /\ recipe_urls = <<>>
    /\ tag \in PurgeTags
    /\ idx = 1 /\ name = None /\ tags = <<>> /\ html = NoPage
    /\ items = <<>> /\ item_i = 1 /\ calls = <<>> /\ log = <<>> /\ created = <<>>
    /\ catalog \in Catalogs /\ page = 1 /\ victims = <<>>
    /\ png_files = <<>> /\ png_i = 1 /\ scripts = <<>> /\ script_i = 1
    /\ files = <<>>

NextPurge == ScanPage \/ ScanPageFails \/ DeleteVictim \/ ReportCount

SpecPurge == InitPurge /\ [][NextPurge]_vars

(***************************************************************************)
(* bulk_parse_recipe_pages.py: bulk_process_folder                         *)
(* parse_recipe_page.py: process_recipe_image, generate_menu_image         *)
(***************************************************************************)
MaxPngs == 3

MaxBlocks == 2

\* A <script> block of the vision model's answer: its JSON parses or not.
Blocks == {"recipe", "bad_json"}

\* An artifact written for block b of page p: kind "html", "prompt" or "png".
File(p, b, kind) == [page |-> p, block |-> b, kind |-> kind]

\* the loop over png_files moves on
NextPng(i) == IF i + 1 > Len(png_files) THEN "done" ELSE "vision"

\* the loop over scripts moves on, then the loop over png_files
NextBlock(scr, j, i) == IF j + 1 > Len(scr) THEN NextPng(i) ELSE "block"

\* bulk_process_folder lines 30-40: the checks before the loop
BulkStart ==
    /\ pc = "bulk_start"
    /\ \/ /\ pc' = "crashed"                  \* not a directory: ValueError
          /\ log' = log
       \/ /\ png_files = <<>>
          /\ pc' = "done"
          /\ log' = Append(log, Line(0, "no_png_files"))
       \/ /\ png_files # <<>>
          /\ pc' = "vision"
          /\ log' = log
    /\ UNCHANGED <<listingVars, tag, importVars, items, item_i, calls,
                   purgeVars, bulkVars>>

\* process_recipe_image lines 180-197, called at line 43 of
\* bulk_process_folder: neither function catches what gpt4o_parse_image
\* raises (calls, log and files start over for this page)
ParseImage ==
    /\ pc = "vision"
    /\ files' = <<>>
    /\ \/ /\ calls' = <<Call("vision", png_i, 0, FALSE, <<>>, <<>>)>>
          /\ log' = <<>>
          /\ pc' = "crashed"
          /\ UNCHANGED <<png_i, scripts, script_i>>
       \/ /\ calls' = <<Call("vision", png_i, 0, TRUE, <<>>, <<>>)>>
          /\ \/ /\ log' = <<Line(png_i, "no_recipe_detected")>>
                /\ scripts' = <<>>
             \/ /\ log' = <<Line(png_i, "no_recipe_scripts")>>
                /\ scripts' = <<>>
          /\ script_i' = 1
          /\ png_i' = png_i + 1
          /\ pc' = NextPng(png_i)
       \/ /\ calls' = <<Call("vision", png_i, 0, TRUE, <<>>, <<>>)>>
          /\ \E scr \in SeqsUpTo(Blocks, MaxBlocks) \ {<<>>} : scripts' = scr
          /\ log' = <<>>
          /\ script_i' = 1
          /\ png_i' = png_i
          /\ pc' = "block"
    /\ UNCHANGED <<listingVars, tag, importVars, items, item_i, purgeVars,
                   png_files>>

\* lines 199-239 with the prompt of lines 113-114 written inside the try of
\* line 117, after the image has been obtained
ProcessBlockPromptInsideTry ==
    /\ pc = "block"
    /\ IF scripts[script_i] = "bad_json"
       THEN /\ log' = Append(log, Line(script_i, "error_parsing_json"))
            /\ UNCHANGED <<files, calls>>
       ELSE \/ /\ calls' = Append(calls, Call("image", png_i, script_i, TRUE, <<>>, <<>>))
               /\ files' = files \o <<File(png_i, script_i, "html"),
                                      File(png_i, script_i, "prompt"),
                                      File(png_i, script_i, "png")>>
               /\ log' = log \o <<Line(script_i, "saved_html"),
                                  Line(script_i, "prompt_saved"),
                                  Line(script_i, "image_saved")>>
            \/ /\ \E returned \in BOOLEAN :
                    calls' = Append(calls, Call("image", png_i, script_i, returned, <<>>, <<>>))
               /\ files' = Append(files, File(png_i, script_i, "html"))
               /\ log' = log \o <<Line(script_i, "saved_html"),
                                  Line(script_i, "image_generation_failed")>>
    /\ pc' = NextBlock(scripts, script_i, png_i)
    /\ IF script_i + 1 > Len(scripts)
       THEN png_i' = png_i + 1 /\ script_i' = script_i
       ELSE png_i' = png_i /\ script_i' = script_i + 1
    /\ UNCHANGED <<listingVars, tag, importVars, items, item_i, purgeVars,
                   png_files, scripts>>

\* process_recipe_image lines 199-239 with generate_menu_image: one block
ProcessBlock ==
    /\ pc = "block"
    /\ IF scripts[script_i] = "bad_json"
       THEN /\ log' = Append(log, Line(script_i, "error_parsing_json"))
            /\ UNCHANGED <<files, calls>>
       ELSE \/ \* the image is returned as a url or as b64_json
               /\ calls' = Append(calls, Call("image", png_i, script_i, TRUE, <<>>, <<>>))
               /\ files' = files \o <<File(png_i, script_i, "html"),
                                      File(png_i, script_i, "prompt"),
                                      File(png_i, script_i, "png")>>
               /\ log' = log \o <<Line(script_i, "saved_html"),
                                  Line(script_i, "prompt_saved"),
                                  Line(script_i, "image_saved")>>
            \/ \* no data returned, or images.generate / requests.get raises
               /\ \E returned \in BOOLEAN :
                    calls' = Append(calls, Call("image", png_i, script_i, returned, <<>>, <<>>))
               /\ files' = files \o <<File(png_i, script_i, "html"),
                                      File(png_i, script_i, "prompt")>>
               /\ log' = log \o <<Line(script_i, "saved_html"),
                                  Line(script_i, "prompt_saved"),
                                  Line(script_i, "image_generation_failed")>>
    /\ pc' = NextBlock(scripts, script_i, png_i)
    /\ IF script_i + 1 > Len(scripts)
       THEN png_i' = png_i + 1 /\ script_i' = script_i
       ELSE png_i' = png_i /\ script_i' = script_i + 1
    /\ UNCHANGED <<listingVars, tag, importVars, items, item_i, purgeVars,
                   png_files, scripts>>

InitBulk ==
    /\ pc = "bulk_start"
    /\ index_url = <<>> /\ index_html = <<>> /\ feed_i = 1 /\ links = <<>>
    /\ recipe_urls = <<>>
    /\ tag = None
    /\ idx = 1 /\ name = None /\ tags = <<>> /\ html = NoPage
    /\ items = <<>> /\ item_i = 1 /\ calls = <<>> /\ log = <<>> /\ created = <<>>
    /\ catalog = <<>> /\ page = 1 /\ victims = <<>>
    /\ \E n \in 0..MaxPngs : png_files = [i \in 1..n |-> i]
    /\ png_i = 1 /\ scripts = <<>> /\ script_i = 1
    /\ files = <<>>

NextBulk == BulkStart \/ ParseImage \/ ProcessBlock

SpecBulk == InitBulk /\ [][NextBulk]_vars

(***************************************************************************)
(* import_recipes: duplicate removal and import                            *)
(***************************************************************************)
\* Positions of calls holding a request of kind op.
CallsOf(op) == { i \in 1..Len(calls) : calls[i].op = op }

\* Entries of a search result whose name equals n, case folded.
FoldEqual(a, b) == Lower(a) = Lower(b)

\* C1: the create-from-url call of a url is never issued before a delete has
\* been issued for every entry its search returned whose name equals the
\* extracted name, case folded -- whatever the search and the deletes did.
C1_CreateAfterEveryMatchingDelete ==
    \A c \in CallsOf("create") : \A s \in CallsOf("search") :
        \A j \in 1..Len(calls[s].res) :
            FoldEqual(item_name(calls[s].res[j]), calls[s].q) =>
                \E d \in CallsOf("delete") :
                    s < d /\ d < c /\ calls[d].id = calls[s].res[j].id

\* C2: when one delete of several matching entries fails, the deletes of the
\* remaining matching entries are still issued, and so is the create.
C2_FailedDeleteBlocksNothing ==
    (pc \in {"for_url", "done"} /\ \E d \in CallsOf("delete") : ~ calls[d].ok) =>
        /\ CallsOf("create") # {}
        /\ \A s \in CallsOf("search") : \A j \in 1..Len(calls[s].res) :
             FoldEqual(item_name(calls[s].res[j]), calls[s].q) =>
                 \E d \in CallsOf("delete") : calls[d].id = calls[s].res[j].id

\* C9: a delete is issued only for an entry of the search result whose name
\* equals the extracted name after case folding; an entry whose name only
\* contains the name searched is never deleted.
C9_OnlyFoldEqualNamesDeleted ==
    \A d \in CallsOf("delete") : \A s \in CallsOf("search") :
        \E j \in 1..Len(calls[s].res) :
            /\ calls[s].res[j].id = calls[d].id
            /\ FoldEqual(item_name(calls[s].res[j]), calls[s].q)

\* C9 witness: the search for "Chili" returned "White Chili" and "Chili";
\* the loop is over, "Chili" was deleted and "White Chili" was not.
C9_Witness ==
    /\ pc = "create"
    /\ name = s_Chili
    /\ \E i, j \in 1..Len(items) :
          /\ items[i].name = s_White_Chili
          /\ items[j].name = s_Chili
          /\ \E d \in CallsOf("delete") : calls[d].id = items[j].id /\ calls[d].ok
          /\ ~ \E d \in CallsOf("delete") : calls[d].id = items[i].id

\* The page read yields no recipe name.
YieldsNoName(h) == h.kind \in {"no_ld", "bad_json"} \/ h.name = None \/ h.name = <<>>

\* The url of the page just read was skipped: nothing was requested for it,
\* one line says why, and the loop stands at the next url (or is over).
SkippedWithoutCalls ==
    /\ calls = <<>>
    /\ Len(log) = 1
    /\ log[1].kind \in {"no_name", "skip_tag"}
    /\ idx = log[1].k + 1
    /\ ~ InList(log[1].k, created)
    /\ pc = IF idx > Len(recipe_urls) THEN "done" ELSE "for_url"

\* C10, as stated: a url whose page yields no recipe name, or (a tag filter
\* being given) whose case-folded tag list does not contain the case-folded
\* filter tag, is skipped with no search, delete or create issued for it,
\* and the loop goes on with the next url.
C10_SkipOnFoldedTagList ==
    ( /\ html.kind \notin {"none", "unreachable"}
      /\ \/ YieldsNoName(html)
         \/ /\ tag # None /\ tag # <<>>
            /\ ~ InList(Lower(tag), MapSeq(Lower, extract_tags(html))) )
    => SkippedWithoutCalls

\* C10, amended: the same, the tags of the page and the filter tag being
\* compared after trimming surrounding whitespace and case folding.
C10_SkipOnTrimmedFoldedTagList ==
    ( /\ html.kind \notin {"none", "unreachable"}
      /\ \/ YieldsNoName(html)
         \/ /\ tag # None /\ tag # <<>>
            /\ \A i \in 1..Len(extract_tags(html)) :
                   Lower(Strip(extract_tags(html)[i])) # Lower(Strip(tag)) )
    => SkippedWithoutCalls

\* C10 witness: a page with a name was skipped because the filter tag is
\* not among its tags, at a url that is not the last one.
C10_Witness ==
    /\ pc = "for_url" /\ idx = 2
    /\ html.kind = "ld" /\ html.name = s_chili
    /\ tag = s_Family
    /\ log = <<Line(1, "skip_tag")>>
    /\ calls = <<>>

(***************************************************************************)
(* fetch_listing                                                           *)
(***************************************************************************)
\* h ends in ".html", whatever the case of its letters.
EndsInHtmlAnyCase(h) ==
    /\ h # None
    /\ Len(h) >= 5
    /\ LET t == SubSeq(h, Len(h) - 4, Len(h))
       IN  /\ t[1] = Ord(".")
           /\ t[2] \in {Ord("h"), Ord("H")}
           /\ t[3] \in {Ord("t"), Ord("T")}
           /\ t[4] \in {Ord("m"), Ord("M")}
           /\ t[5] \in {Ord("l"), Ord("L")}

\* The hrefs of the anchors of the index document that end in .html.
HtmlAnchors ==
    SelectSeq(index_html, LAMBDA t : t.tag = "a" /\ EndsInHtmlAnyCase(t.href))

Count(x, xs) == Cardinality({ i \in 1..Len(xs) : xs[i] = x })

\* fetch_listing has returned to import_recipes
ListingReturned ==
    /\ pc \in {"for_url", "exit"}
    /\ ~ InList(Line(0, "unable_to_fetch_index"), log)

IsSorted(xs) == \A i, j \in 1..Len(xs) : i < j => StrLeq(xs[i], xs[j])

\* Every url returned is absolute, ends in .html and is the resolution
\* against the index directory of the href of an anchor that ends in .html.
OnlyResolvedHtmlLinks ==
    \A i \in 1..Len(recipe_urls) :
        /\ Find(recipe_urls[i], scheme_sep, 1) # 0
        /\ EndsInHtmlAnyCase(recipe_urls[i])
        /\ \E j \in 1..Len(HtmlAnchors) :
              recipe_urls[i] = urljoin(RStripSlash(index_url) \o slash, HtmlAnchors[j].href)

RECURSIVE ListedUpTo(_)
ListedUpTo(n) ==
    IF n = 0 THEN <<>>
    ELSE ListedUpTo(n - 1) \o (IF calls[n].op = "list" THEN calls[n].res ELSE <<>>)

Listed == ListedUpTo(Len(calls))

\* The canonical form of the glossary, character by character: letters
\* lower-cased, everything but letters and digits dropped.
RECURSIVE Canonical(_)
Canonical(t) ==
    IF t = <<>> THEN <<>>
    ELSE LET c == Head(t)
         IN  IF c >= Ord("A") /\ c <= Ord("Z") THEN <<c + 32>> \o Canonical(Tail(t))
             ELSE IF (c >= Ord("a") /\ c <= Ord("z")) \/ (c >= Ord("0") /\ c <= Ord("9"))
                  THEN <<c>> \o Canonical(Tail(t))
             ELSE Canonical(Tail(t))

\* The entry carries a tag whose name or slug is the target, canonically.
CarriesTag(e, target) ==
    \E i \in 1..Len(e.tags) :
        \/ e.tags[i].name # None /\ Canonical(e.tags[i].name) = Canonical(target)
        \/ e.tags[i].slug # None /\ Canonical(e.tags[i].slug) = Canonical(target)

PurgeEnded == pc \in {"done", "crashed"}

CountReported(n) == log # <<>> /\ log[Len(log)] = Line(n, "deleted_count")

\* C3: for every catalog and target tag, delete_all_tagged issues a delete
\* for exactly the entries carrying a tag whose canonical name or slug is
\* the canonical target (a tag with a slug and no name included), for no
\* other entry, and then reports the number of matching entries.
C3_DeletesExactlyTaggedThenCounts ==
    (PurgeEnded /\ \A i \in 1..Len(calls) : calls[i].ok) =>
        /\ \A i \in 1..Len(Listed) :
              CarriesTag(Listed[i], tag) <=>
                  \E d \in CallsOf("delete") : calls[d].id = Listed[i].id
        /\ CountReported(Cardinality({ i \in 1..Len(Listed) : CarriesTag(Listed[i], tag) }))

\* C7: a delete that fails is contained to its entry: the deletes of the
\* remaining marked entries are still issued and the run ends by reporting
\* the count.
C7_FailedDeleteIsContained ==
    (PurgeEnded /\ \E d \in CallsOf("delete") : ~ calls[d].ok) =>
        /\ \A i \in 1..Len(Listed) :
              CarriesTag(Listed[i], tag) =>
                  \E d \in CallsOf("delete") : calls[d].id = Listed[i].id
        /\ \E n \in 0..Len(Listed) : CountReported(n)

\* C4: delete_all_tagged is two-phase: no delete is issued until the last
\* list request of the run has returned, so no list request follows a
\* delete and the catalog is as it was for as long as it is paginated.
C4_NoDeleteBeforeLastListReturned ==
    /\ \A d \in CallsOf("delete") : \A l \in CallsOf("list") :
          l < d /\ calls[l].ok
    /\ pc = "scan" => CallsOf("delete") = {}
    /\ CallsOf("delete") # {} =>
          \E l \in CallsOf("list") :
              /\ \A m \in CallsOf("list") : m <= l
              /\ Len(calls[l].res) < 100

\* C4 witness: a catalog of more than one page was listed to its end and a
\* delete has then been issued.
C4_Witness ==
    /\ Cardinality(CallsOf("list")) >= 2
    /\ CallsOf("delete") # {}
    /\ pc = "delete"

\* The scan loop is over and nothing has been deleted yet.
ScanJustEnded == pc = "delete" /\ CallsOf("delete") = {}

\* C5: for a static catalog served in pages of 100 the scan requests pages
\* 1, 2, ... in order, examines every entry exactly once and ends at the
\* first page shorter than 100; 250 entries take exactly 3 requests, of
\* 100, 100 and 50 entries.
C5_ScanPagesInOrderToFirstShortPage ==
    /\ \A l \in CallsOf("list") :
          /\ calls[l].k = l
          /\ l < Cardinality(CallsOf("list")) => Len(calls[l].res) = 100
    /\ (pc = "scan" /\ calls # <<>>) => Len(calls[Len(calls)].res) = 100
    /\ ScanJustEnded =>
          /\ Listed = catalog
          /\ Len(calls[Len(calls)].res) < 100
          /\ victims = SelectSeq(catalog, LAMBDA e : CarriesTag(e, tag))
          /\ Len(catalog) = 250 =>
                /\ Len(calls) = 3
                /\ Len(calls[1].res) = 100
                /\ Len(calls[2].res) = 100
                /\ Len(calls[3].res) = 50

\* C5 witness: a catalog of 250 entries has been scanned to its end.
C5_Witness ==
    /\ ScanJustEnded
    /\ Len(catalog) = 250
    /\ Len(calls) = 3

(***************************************************************************)
(* bulk_process_folder                                                     *)
(***************************************************************************)
\* C8: a failure of the vision-model call for one page image is logged and
\* the remaining page images of the folder are still processed; the batch
\* is not aborted.
C8_VisionFailureIsContained ==
    (\E v \in CallsOf("vision") : ~ calls[v].ok) =>
        /\ pc # "crashed"
        /\ log # <<>>
        /\ png_i = calls[1].k + 1

(***************************************************************************)
(* process_recipe_image, generate_menu_image                               *)
(***************************************************************************)
\* The page image whose blocks are being, or were last, processed.
BlocksPage == calls[1].k

\* How many blocks of that page the loop of line 199 has been through.
BlocksDone ==
    IF pc = "block" THEN script_i - 1
    ELSE IF pc \in {"vision", "done"} THEN Len(scripts)
    ELSE 0

InFiles(f) == \E i \in 1..Len(files) : files[i] = f

\* Block j parsed, and no image was saved for it.
ImageFailedFor(j) ==
    /\ scripts[j] = "recipe"
    /\ ~ InFiles(File(BlocksPage, j, "png"))

\* C11: for every recipe block that parses, the .prompt.txt file is written
\* whether or not the image generation then succeeds, and a failed image
\* generation does not stop the remaining blocks of the page from being
\* processed.
C11_PromptWrittenAndBlocksGoOn ==
    /\ \A j \in 1..BlocksDone :
          scripts[j] = "recipe" =>
              /\ InFiles(File(BlocksPage, j, "prompt"))
              /\ InFiles(File(BlocksPage, j, "html"))
              /\ \E c \in CallsOf("image") : calls[c].id = j
    /\ \A j \in 1..BlocksDone :
          scripts[j] = "bad_json" =>
              ~ \E i \in 1..Len(files) : files[i].block = j
    /\ pc = "crashed" => CallsOf("image") = {}
    /\ (scripts # <<>> /\ pc \in {"vision", "done"}) =>
          png_i = BlocksPage + 1

\* C11 witness: on a page of two recipe blocks the image generation of the
\* first raised; its prompt is written and the second block was processed
\* and got its image.
C11_Witness ==
    /\ scripts = <<"recipe", "recipe">>
    /\ BlocksDone = 2
    /\ \E c \in CallsOf("image") : calls[c].id = 1 /\ ~ calls[c].ok
    /\ ImageFailedFor(1)
    /\ InFiles(File(BlocksPage, 1, "prompt"))
    /\ InFiles(File(BlocksPage, 2, "prompt"))
    /\ InFiles(File(BlocksPage, 2, "png"))

(***************************************************************************)
(* import_recipes: when curl_import runs                                   *)
(***************************************************************************)
\* The page was fetched, a non-empty name was extracted from it and the tag
\* filter, if any, is among its trimmed, case-folded tags.
PassesToImport(h, tg) ==
    /\ h.kind = "ld"
    /\ h.name # None /\ h.name # <<>>
    /\ \/ tg = None \/ tg = <<>>
       \/ \E i \in 1..Len(extract_tags(h)) :
              Lower(Strip(extract_tags(h)[i])) = Lower(Strip(tg))

\* Between the read of a page and the curl_import of its url.
UrlInHand == pc \in {"search", "dup_loop", "create"}

\* The create call follows exactly the pages that pass, at the position of
\* the loop the page was read for, whatever the search and deletes did.
CreateExactlyWhenPagePasses ==
    /\ IsSorted(recipe_urls)
    /\ \A i \in 1..Len(created) :
          created[i] \in 1..Len(recipe_urls) /\ created[i] <= idx
    /\ html.kind # "none" =>
          IF UrlInHand
          THEN PassesToImport(html, tag) /\ ~ InList(idx, created)
          ELSE InList(idx - 1, created) <=> PassesToImport(html, tag)
    /\ (pc = "done" \/ (pc = "for_url" /\ html.kind # "none")) =>
          (CallsOf("create") # {} <=> PassesToImport(html, tag))

====
